---- MODULE Spec2Model ----
(***************************************************************************)
(* Model of the Solo Leveling narrative engine: the game-state document    *)
(* (js/state/gameState.js), its rolling conversation history with          *)
(* summarization, and the turn orchestrator (js/gameManager.js).           *)
(*                                                                         *)
(* Five specifications are given.                                          *)
(*   Spec      the orchestrator: API-key submission, startNewGame,         *)
(*             loadGame and handlePlayerAction, interleaved at their       *)
(*             external calls.  GameState.apiKey is never assigned by the  *)
(*             sources, so it is NoKey here.                               *)
(*   SpecHist  the history window alone: the history append of a turn and  *)
(*             manageConversationHistory, called one after the other on a  *)
(*             GameState whose apiKey field is an input (NoKey or a key).  *)
(*   FairSpec  Spec, with every external call of a turn eventually         *)
(*             returning or failing.                                       *)
(*   SpecStore the GameState operations (updateState, getSaveData,         *)
(*             loadSaveData, resetState) and the manager's saveGame and    *)
(*             loadGame, called one after the other.                       *)
(*   SpecKeyed the orchestrator with a game running, on a GameState whose  *)
(*             apiKey field holds a key: the turns include the summarizer  *)
(*             calls of manageConversationHistory.                         *)
(***************************************************************************)
EXTENDS Integers, Sequences, FiniteSets, TLC

VARIABLES
    state,               \* GameState.state, the game state document
    apiKey,              \* GameState.apiKey, read by manageConversationHistory
    mch,                 \* the manageConversationHistory invocation
    handed,              \* history: the chunks handed to summarizeHistory so far
    sources,             \* history: for each entry of state.summaries, its chunk
    serial,              \* number of history texts created so far
    appends,             \* number of history appends made so far
    compacts,            \* number of direct manageConversationHistory calls so far
    isInitialized,       \* GameManager.isInitialized
    isGameRunning,       \* GameManager.isGameRunning
    isWaitingForAction,  \* GameManager.isWaitingForAction, the action gate
    pendingOperations,   \* GameManager.pendingOperations
    imageFrequency,      \* the imageFrequency setting
    keyPc,               \* where the API-key submission handler stands
    games,               \* the startNewGame invocations
    turns,               \* the handlePlayerAction invocations
    initialContext,      \* GameState.initialContext
    op,                  \* history: the last operation made on the GameState directly
    saved                \* the last save data produced (the save file)

histVars == <<handed, sources, appends, compacts>>

mgrVars == <<isInitialized, isGameRunning, isWaitingForAction, pendingOperations,
             imageFrequency, keyPc, games, turns>>

storeVars == <<initialContext, op, saved>>

vars == <<state, apiKey, mch, handed, sources, serial, appends, compacts,
          isInitialized, isGameRunning, isWaitingForAction, pendingOperations,
          imageFrequency, keyPc, games, turns, initialContext, op, saved>>

-----------------------------------------------------------------------------
(* Bounds of the model *)

MaxAppends == 3
MaxCompacts == 1
MaxHanded == 4
MaxTurns == 2
MaxGames == 2
MaxOps == 3

TurnIds == 1..MaxTurns
GameIds == 1..MaxGames

-----------------------------------------------------------------------------
(* Program constants *)

Budget == 20000
ChunkTokens == 2500

NoKey == "undefined"
SomeKey == "key"

\* Word counts of the texts the inputs are drawn from.  A text is modelled by
\* its serial number (which text it is) and the number of pieces
\* text.split(/\s+/) yields.
ActionWords == {1, 1880, 7436}
NarrationWords == {40, 7600, 15100}
SummaryWords == {40}

\* The texts of the orchestrator's runs
TurnActionWords == {1}
TurnNarrationWords == {40, 7600}

Text(id, words) == [id |-> id, words |-> words]

\* undefined or ''
NoText == Text(0, 0)

\* "Summary unavailable."
SummaryUnavailable == Text(0, 2)

\* What _callModel('light', ...) resolves to for summarizeHistory: an object
\* whose text is absent (the usual {valid: false, reason, ...}) or present
SummarizerResults == {[text |-> NoText]} \cup {[text |-> Text(0, w)] : w \in SummaryWords}

\* The stateChanges a heavy-model result can carry (modelManager.js 216-260)
ExperiencePatch == [player |-> [experience |-> 10]]
HistoryPatch == [history |-> <<"event">>]
Patches == {ExperiencePatch, HistoryPatch}

\* What validatePlayerAction resolves to (a parsed JSON object, or the
\* {valid: false, reason, involveNPC: false} of modelManager.js 293-297)
NoVerdict == [valid |-> FALSE, involveNPC |-> FALSE, npcName |-> "none", newScene |-> FALSE,
              none |-> TRUE]
Verdicts ==
    { [valid |-> FALSE, involveNPC |-> FALSE],
      [valid |-> TRUE, involveNPC |-> FALSE, newScene |-> FALSE],
      [valid |-> TRUE, involveNPC |-> FALSE, newScene |-> TRUE],
      [valid |-> TRUE, involveNPC |-> TRUE, npcName |-> "NurseJoohee", newScene |-> FALSE],
      [valid |-> TRUE, involveNPC |-> TRUE, newScene |-> FALSE] }

\* What generateNPCResponse resolves to: _callModel('medium') yields
\* {dialogue} or {dialogue, stateChanges} (modelManager.js 257-280)
NpcPatch == [NPCs |-> [NurseJoohee |-> [relationship |-> "trusting"]]]

NpcResponses ==
    { [dialogue |-> "said"],
      [dialogue |-> "said", stateChanges |-> ExperiencePatch],
      [dialogue |-> "said", stateChanges |-> NpcPatch] }

\* npcResponse = null, line 253
NoNpcResponse == [dialogue |-> "none"]

\* What generateOpeningSequence resolves to (modelManager.js 392-403)
OpeningResults ==
    { [narration |-> Text(0, 40)],
      [narration |-> Text(0, 40), stateChanges |-> ExperiencePatch] }

ImageFrequencies == {"never", "major-scenes"}

-----------------------------------------------------------------------------
(* Token estimate *)

\* Math.ceil(text.split(/\s+/).length * 1.33)
estimateTokens(text) == (text.words * 133 + 99) \div 100

\* tokenEstimator.estimateTokens of gameManager.js 306 and 311: the
\* TokenEstimator, which approximates the token count of a text from its word
\* count
tokenEstimator_estimateTokens(text) == estimateTokens(text)

-----------------------------------------------------------------------------
(* GameState *)

initializeState ==
    [ player |->
        [ name |-> "Sung Jinwoo", rank |-> "E", level |-> 1, experience |-> 0,
          HP |-> 100, MP |-> 0,
          stats |-> [STR |-> 10, AGI |-> 10, INT |-> 10, SENSE |-> 10, VIT |-> 10],
          inventory |-> << [name |-> "Hospital Gown", type |-> "clothing",
                            description |-> "A plain patient gown", quantity |-> 1] >>,
          gold |-> 0 ],
      world |-> [ location |-> "Seoul Ilshin Hospital - Room 302",
                  time |-> "Day 1 - Morning", dungeon |-> "null" ],
      NPCs |-> [ NurseJoohee |-> [ relationship |-> "friendly", lastSeen |-> "hospital",
                                   knowsAboutSystem |-> FALSE ] ],
      quests |-> [ current |-> "Welcome to the System", completed |-> <<>> ],
      conversationHistory |-> <<>>,
      summaries |-> <<>> ]

Has(r, k) == k \in DOMAIN r

Without(r, k) == [x \in DOMAIN r \ {k} |-> r[x]]

\* The keys whose values are objects (instanceof Object and not an Array) in
\* the documents and patches of this model; every other value is a primitive
\* or an array
ObjectKeys == {"player", "stats", "world", "NPCs", "quests", "NurseJoohee"}

\* String.prototype.toLowerCase on the item names of this model
LowerCase ==
    [n \in {"Hospital Gown", "hospital gown", "HOSPITAL GOWN",
            "Potion", "potion", "POTION"} |->
        IF n \in {"Potion", "potion", "POTION"} THEN "potion" ELSE "hospital gown"]

toLowerCase(s) == IF s \in DOMAIN LowerCase THEN LowerCase[s] ELSE s

deepMergeShallow(target, source) ==
    [key \in DOMAIN target \cup DOMAIN source |->
        IF Has(source, key) THEN source[key] ELSE target[key]]

RECURSIVE deepMergeConcat(_, _)
deepMergeConcat(target, source) ==
    [key \in DOMAIN target \cup DOMAIN source |->
        IF ~Has(source, key) THEN target[key]
        ELSE IF key \in ObjectKeys /\ Has(target, key)
               THEN deepMergeConcat(target[key], source[key])
        ELSE IF key = "inventory" /\ Has(target, key)
               THEN target[key] \o source[key]
               ELSE source[key]]

\* updateState's helper deepMerge(target, source), lines 59-75
RECURSIVE deepMerge(_, _)
deepMerge(target, source) ==
    [key \in DOMAIN target \cup DOMAIN source |->
        IF ~Has(source, key) THEN target[key]
        ELSE IF key \in ObjectKeys /\ Has(target, key)
               THEN deepMerge(target[key], source[key])
               ELSE source[key]]

\* item.quantity || 1
QuantityOr1(item) ==
    IF Has(item, "quantity") /\ item.quantity # 0 THEN item.quantity ELSE 1

FindItemIndexExact(inventory, name) ==
    LET hits == {i \in 1..Len(inventory) : inventory[i].name = name}
    IN  IF hits = {} THEN 0 ELSE CHOOSE i \in hits : \A j \in hits : i <= j

\* inventory.findIndex(i => i.name.toLowerCase() === name.toLowerCase()), from
\* 1; 0 when there is none
FindItemIndex(inventory, name) ==
    LET hits == {i \in 1..Len(inventory) :
                    toLowerCase(inventory[i].name) = toLowerCase(name)}
    IN  IF hits = {} THEN 0 ELSE CHOOSE i \in hits : \A j \in hits : i <= j

\* One round of the inventoryAdd loop, lines 96-109
AddItem(inventory, item) ==
    LET i == FindItemIndex(inventory, item.name)
    IN  IF i > 0
          THEN [inventory EXCEPT ![i].quantity = @ + QuantityOr1(item)]
          ELSE Append(inventory,
                      [k \in DOMAIN item \cup {"quantity"} |->
                          IF k = "quantity" THEN QuantityOr1(item) ELSE item[k]])

RECURSIVE AddItems(_, _)
AddItems(inventory, items) ==
    IF items = <<>> THEN inventory
    ELSE AddItems(AddItem(inventory, Head(items)), Tail(items))

RemoveItemWhole(inventory, item) ==
    LET i == FindItemIndex(inventory, item.name)
    IN  IF i = 0 THEN inventory
        ELSE SubSeq(inventory, 1, i - 1) \o SubSeq(inventory, i + 1, Len(inventory))

RemoveItemUnguarded(inventory, item) ==
    LET i == FindItemIndex(inventory, item.name)
    IN  IF i = 0 THEN SubSeq(inventory, 1, Len(inventory) - 1)
        ELSE IF inventory[i].quantity > QuantityOr1(item)
          THEN [inventory EXCEPT ![i].quantity = @ - QuantityOr1(item)]
          ELSE SubSeq(inventory, 1, i - 1) \o SubSeq(inventory, i + 1, Len(inventory))

\* One round of the inventoryRemove loop, lines 116-131
RemoveItem(inventory, item) ==
    LET i == FindItemIndex(inventory, item.name)
    IN  IF i = 0 THEN inventory
        ELSE IF inventory[i].quantity > QuantityOr1(item)
          THEN [inventory EXCEPT ![i].quantity = @ - QuantityOr1(item)]
          ELSE SubSeq(inventory, 1, i - 1) \o SubSeq(inventory, i + 1, Len(inventory))

RECURSIVE RemoveItems(_, _)
RemoveItems(inventory, items) ==
    IF items = <<>> THEN inventory
    ELSE RemoveItems(RemoveItem(inventory, Head(items)), Tail(items))

\* Lines 93-110: the document and the patch after the inventoryAdd case
HandleInventoryAdd(d) ==
    IF Has(d.changes, "player") /\ Has(d.changes.player, "inventoryAdd")
      THEN [d EXCEPT
              !.state.player.inventory = AddItems(@, d.changes.player.inventoryAdd),
              !.changes.player = Without(@, "inventoryAdd")]
      ELSE d

\* Lines 113-132
HandleInventoryRemove(d) ==
    IF Has(d.changes, "player") /\ Has(d.changes.player, "inventoryRemove")
      THEN [d EXCEPT
              !.state.player.inventory = RemoveItems(@, d.changes.player.inventoryRemove),
              !.changes.player = Without(@, "inventoryRemove")]
      ELSE d

\* A quest name that is truthy: any string but the empty one
IsTruthy(quest) == quest # ""

HandleCompleteQuestIfAbsent(d) ==
    IF Has(d.changes, "quests") /\ Has(d.changes.quests, "completeQuest")
      THEN LET questToComplete == d.changes.quests.completeQuest
           IN  [d EXCEPT
                  !.changes.quests = Without(@, "completeQuest"),
                  !.state.quests.completed =
                      IF \A i \in 1..Len(@) : @[i] # questToComplete
                        THEN Append(@, questToComplete) ELSE @]
      ELSE d

\* Lines 135-148: the test of line 135 is one of truthiness, so an empty
\* completeQuest is left in the patch
HandleCompleteQuest(d) ==
    IF /\ Has(d.changes, "quests") /\ Has(d.changes.quests, "completeQuest")
       /\ IsTruthy(d.changes.quests.completeQuest)
      THEN LET questToComplete == d.changes.quests.completeQuest
               rest == Without(d.changes.quests, "completeQuest")
               quests == d.state.quests
           IN  [d EXCEPT
                  !.changes.quests = rest,
                  !.state.quests =
                      IF quests.current = questToComplete
                        THEN [quests EXCEPT
                                !.completed = Append(@, questToComplete),
                                !.current = IF Has(rest, "current") /\ IsTruthy(rest.current)
                                              THEN rest.current
                                              ELSE "null"]
                      ELSE IF \A i \in 1..Len(quests.completed) :
                                  quests.completed[i] # questToComplete
                        THEN [quests EXCEPT !.completed = Append(@, questToComplete)]
                      ELSE quests]
      ELSE d

\* Lines 150-154: spreading this.state.history throws a TypeError when the
\* document has no history key
HandleHistory(d) ==
    IF Has(d.changes, "history")
      THEN IF Has(d.state, "history")
             THEN [d EXCEPT !.state.history = @ \o d.changes.history,
                            !.changes = Without(@, "history")]
             ELSE [d EXCEPT !.threw = TRUE]
      ELSE d

\* _handleSpecialCases(changes), lines 91-155
handleSpecialCases(st, changes) ==
    HandleHistory(HandleCompleteQuest(HandleInventoryRemove(HandleInventoryAdd(
        [state |-> st, changes |-> changes, threw |-> FALSE]))))

\* updateState(changes): the document afterwards, and whether it threw
updateState(st, changes) ==
    LET d == handleSpecialCases(st, changes)
    IN  IF d.threw THEN [state |-> d.state, threw |-> TRUE]
        ELSE [state |-> deepMerge(d.state, d.changes), threw |-> FALSE]

getNpcStateDefault(st, npcName) ==
    IF Has(st.NPCs, npcName) THEN st.NPCs[npcName] ELSE [relationship |-> "neutral"]

\* getNpcState(npcName), lines 175-177, for names that Object.prototype does
\* not define: the record of the NPC, or a new empty object
getNpcState(st, npcName) ==
    IF Has(st.NPCs, npcName) THEN st.NPCs[npcName] ELSE << >>

updateNpcStateReplace(st, npcName, changes) ==
    [st EXCEPT !.NPCs = [n \in DOMAIN st.NPCs \cup {npcName} |->
                            IF n = npcName THEN changes ELSE st.NPCs[n]]]

\* updateNpcState(npcName, changes), lines 184-196
updateNpcState(st, npcName, changes) ==
    LET old == IF Has(st.NPCs, npcName) THEN st.NPCs[npcName] ELSE << >>
        new == [key \in DOMAIN old \cup DOMAIN changes |->
                   IF Has(changes, key) THEN changes[key] ELSE old[key]]
    IN  [st EXCEPT !.NPCs = [n \in DOMAIN st.NPCs \cup {npcName} |->
                                IF n = npcName THEN new ELSE st.NPCs[n]]]

resetStateKeepsSummaries(st) == [initializeState EXCEPT !.summaries = st.summaries]

\* resetState(), lines 282-284: the document initializeState builds
resetState(st) == initializeState

RECURSIVE SumTokens(_)
SumTokens(h) == IF h = <<>> THEN 0 ELSE Head(h).tokens + SumTokens(Tail(h))

\* tokenCount after the loop of lines 222-228 has visited entry i
SuffixTokens(h, i) == SumTokens(SubSeq(h, i, Len(h)))

\* excessHistory: the entries at which the running count exceeds the budget,
\* in their order in the log (each is unshifted as the loop walks backwards)
RECURSIVE ExcessFrom(_, _)
ExcessFrom(h, i) ==
    IF i > Len(h) THEN <<>>
    ELSE (IF SuffixTokens(h, i) > Budget THEN <<h[i]>> ELSE <<>>) \o ExcessFrom(h, i + 1)

ExcessHistory(h) == ExcessFrom(h, 1)

\* conversationHistory.slice(keepIndex)
TrimHistory(h) ==
    LET keepIndex == Len(h) - Len(ExcessHistory(h))
    IN  SubSeq(h, keepIndex + 1, Len(h))

\* The budget of generateNarration's recent history (modelManager.js 362-365)
RecentBudget == 20000

\* recentEntries of generateNarration (modelManager.js 360-366): the loop
\* walks back from entry i while tokenCount < 20000, and unshifts the entries
\* at which the count is still within the budget
RECURSIVE RecentFrom(_, _, _)
RecentFrom(h, i, tokenCount) ==
    IF i >= 1 /\ tokenCount < RecentBudget
      THEN LET count == tokenCount + h[i].tokens
           IN  RecentFrom(h, i - 1, count)
                   \o (IF count <= RecentBudget THEN << h[i] >> ELSE << >>)
      ELSE << >>

RecentEntries(h) == RecentFrom(h, Len(h), 0)

ChunkLengthAll(rest) == Len(rest)

\* The number of entries the chunk loop takes before it flushes: up to the
\* first entry at which the chunk's count reaches ChunkTokens, else all.
ChunkLength(rest) ==
    LET full == {k \in 1..Len(rest) : SumTokens(SubSeq(rest, 1, k)) >= ChunkTokens}
    IN  IF full = {} THEN Len(rest)
        ELSE CHOOSE k \in full : \A j \in full : k <= j

ChunkTexts(rest) == [k \in 1..ChunkLength(rest) |-> rest[k].text]

AfterChunk(rest) == SubSeq(rest, ChunkLength(rest) + 1, Len(rest))

\* ModelManager.initialize: throws when no API key was given
ModelManagerInitializeOk(key) == key # NoKey

\* summarizeHistory: result.text || "Summary unavailable."
summarizeHistory(result) ==
    IF result.text = NoText THEN SummaryUnavailable ELSE result.text

SummaryEntry(summary) ==
    [role |-> "Summary", text |-> summary, tokens |-> estimateTokens(summary)]

\* summaries.push(...)
PushSummary(summaries, entry) == Append(summaries, entry)

MchIdle == [pc |-> "idle", rest |-> <<>>, chunk |-> <<>>, result |-> "none",
            before |-> <<>>, sumBefore |-> 0, handedNow |-> <<>>]

\* manageConversationHistory up to its first summarizeHistory call
\* (lines 210-241/248): what the document and the invocation become.
ManageCall(st, key) ==
    LET h == st.conversationHistory
        base == [MchIdle EXCEPT !.before = h, !.sumBefore = Len(st.summaries)]
    IN  IF SumTokens(h) <= Budget
          THEN [state |-> st, mch |-> [base EXCEPT !.result = "returned"],
                chunks |-> <<>>]
        ELSE IF ~ModelManagerInitializeOk(key)
          THEN [state |-> st, mch |-> [base EXCEPT !.result = "initFailed"],
                chunks |-> <<>>]
        ELSE LET excess == ExcessHistory(h)
             IN  [state |-> [st EXCEPT !.conversationHistory = TrimHistory(h)],
                  mch |-> [base EXCEPT !.pc = "summarizing",
                                       !.chunk = ChunkTexts(excess),
                                       !.rest = AfterChunk(excess),
                                       !.handedNow = <<ChunkTexts(excess)>>],
                  chunks |-> <<ChunkTexts(excess)>>]

NoGame == [pc |-> "none", ret |-> "none"]

NoTurn == [pc |-> "none", action |-> NoText, verdict |-> NoVerdict,
           npcResponse |-> NoNpcResponse, compaction |-> MchIdle,
           result |-> [narration |-> NoText], ret |-> "none", how |-> "none"]

\* An entry of conversationHistory (gameManager.js lines 303-307)
ConversationEntry(role, text, tokens) == [role |-> role, text |-> text, tokens |-> tokens]

\* The history append of a turn (gameManager.js lines 303-312)
PushTurn(h, action, narration) ==
    Append(Append(h,
        ConversationEntry("Sung Jinwoo", action, tokenEstimator_estimateTokens(action))),
        ConversationEntry("Narrator", narration, tokenEstimator_estimateTokens(narration)))

-----------------------------------------------------------------------------
(* SpecHist: the history window, driven sequentially *)

\* this.initialContext as initializeState sets it (line 50), and the fallback
\* of loadSaveData (line 275)
DefaultInitialContext == "Jinwoo has just awakened in the hospital room. He survived ..."
FallbackInitialContext == "Jinwoo has just awakened in the hospital room..."

\* No file: null
NoSave == << >>

NoOp == [n |-> 0, name |-> "none", arg |-> << >>, before |-> initializeState,
         beforeContext |-> DefaultInitialContext, threw |-> FALSE, twice |-> FALSE,
         result |-> << >>]

\* The GameState after its constructor (lines 9-15), nothing done to it yet
GameStateInit ==
    /\ initialContext = DefaultInitialContext
    /\ op = NoOp
    /\ saved = NoSave

\* The state after new GameManager() and initialize() (gameManager.js 8-64)
\* with the settings as they stand
MgrInit ==
    /\ isInitialized = FALSE
    /\ isGameRunning = FALSE
    /\ isWaitingForAction = FALSE
    /\ pendingOperations = 0
    /\ imageFrequency \in ImageFrequencies
    /\ keyPc = "none"
    /\ games = [g \in GameIds |-> NoGame]
    /\ turns = [t \in TurnIds |-> NoTurn]

HistInit ==
    /\ state = initializeState
    /\ apiKey \in {NoKey, SomeKey}
    /\ mch = MchIdle
    /\ handed = <<>>
    /\ sources = <<>>
    /\ serial = 0
    /\ appends = 0
    /\ compacts = 0
    /\ MgrInit
    /\ imageFrequency = "major-scenes"
    /\ GameStateInit

\* The history grows by the two entries of a turn, their token costs computed
\* by estimateTokens, and manageConversationHistory is called
AppendTurn(aw, nw) ==
    /\ mch.pc = "idle"
    /\ appends < MaxAppends
    /\ LET action == Text(serial + 1, aw)
           narration == Text(serial + 2, nw)
           h2 == state.conversationHistory \o
                   << ConversationEntry("Sung Jinwoo", action, estimateTokens(action)),
                      ConversationEntry("Narrator", narration, estimateTokens(narration)) >>
           r == ManageCall([state EXCEPT !.conversationHistory = h2], apiKey)
       IN  /\ state' = r.state
           /\ mch' = r.mch
           /\ handed' = handed \o r.chunks
           /\ Len(handed') <= MaxHanded
    /\ serial' = serial + 2
    /\ appends' = appends + 1
    /\ UNCHANGED <<apiKey, sources, compacts, mgrVars, storeVars>>

\* manageConversationHistory called on the history as it stands
Compact ==
    /\ mch.pc = "idle"
    /\ compacts < MaxCompacts
    /\ compacts' = compacts + 1
    /\ LET r == ManageCall(state, apiKey)
       IN  /\ state' = r.state
           /\ mch' = r.mch
           /\ handed' = handed \o r.chunks
           /\ Len(handed') <= MaxHanded
    /\ UNCHANGED <<apiKey, sources, serial, appends, mgrVars, storeVars>>

\* summarizeHistory returns: the summary is pushed and the chunk loop goes on
\* to its next flush, or ends (lines 241-250)
SummarizeReturn(result) ==
    /\ mch.pc = "summarizing"
    /\ state' = [state EXCEPT !.summaries =
                     PushSummary(@, SummaryEntry(summarizeHistory(result)))]
    /\ sources' = Append(sources, mch.chunk)
    /\ IF mch.rest = <<>>
         THEN /\ mch' = [mch EXCEPT !.pc = "idle", !.chunk = <<>>, !.result = "returned"]
              /\ handed' = handed
         ELSE /\ mch' = [mch EXCEPT !.chunk = ChunkTexts(mch.rest),
                                    !.rest = AfterChunk(mch.rest),
                                    !.handedNow = Append(@, ChunkTexts(mch.rest))]
              /\ handed' = Append(handed, ChunkTexts(mch.rest))
              /\ Len(handed') <= MaxHanded
    /\ UNCHANGED <<apiKey, serial, appends, compacts, mgrVars, storeVars>>

\* summarizeHistory throws: manageConversationHistory rejects where it stands
SummarizeFail ==
    /\ mch.pc = "summarizing"
    /\ mch' = [mch EXCEPT !.pc = "idle", !.chunk = <<>>, !.rest = <<>>,
                          !.result = "summarizerFailed"]
    /\ UNCHANGED <<state, apiKey, handed, sources, serial, appends, compacts, mgrVars, storeVars>>

HistNext ==
    \/ \E aw \in ActionWords, nw \in NarrationWords : AppendTurn(aw, nw)
    \/ Compact
    \/ \E result \in SummarizerResults : SummarizeReturn(result)
    \/ SummarizeFail

SpecHist == HistInit /\ [][HistNext]_vars

-----------------------------------------------------------------------------
(* SpecStore: the GameState operations, called one after the other on a    *)
(* GameManager that is idle, with or without a running game                 *)

\* The patches given to updateState: by handlePlayerAction and startNewGame
\* (stateChanges built at modelManager.js 216-260) and by ToolFunctions
\* (toolFunctions.js 180-263)
WelcomeQuest == "Welcome to the System"

\* update_state changes that name the summaries list
SummariesPatch == [summaries |-> << >>]

StorePatches ==
    { [player |-> [HP |-> 50]],
      ExperiencePatch,
      [player |-> [inventoryAdd |-> << [name |-> "Potion", quantity |-> 2] >>]],
      [player |-> [inventoryAdd |-> << [name |-> "potion"] >>]],
      [player |-> [inventoryRemove |-> << [name |-> "POTION"] >>]],
      [player |-> [inventoryRemove |-> << [name |-> "hospital gown"] >>]],
      [player |-> [inventoryRemove |-> << [name |-> "potion", quantity |-> 2] >>]],
      [player |-> [inventoryRemove |-> << [name |-> "potion", quantity |-> 0] >>]],
      [player |-> [inventoryAdd |-> << [name |-> "Potion", quantity |-> -1] >>]],
      [player |-> [inventory |-> << [name |-> "Potion", quantity |-> 1],
                                    [name |-> "potion", quantity |-> 1] >>]],
      [quests |-> [completeQuest |-> WelcomeQuest]],
      [quests |-> [completeQuest |-> WelcomeQuest, current |-> WelcomeQuest]],
      [quests |-> [completeQuest |-> WelcomeQuest, current |-> "Reawakening"]],
      [quests |-> [completeQuest |-> "Side Quest"]],
      [quests |-> [completeQuest |-> ""]],
      SummariesPatch,
      HistoryPatch }

\* A document that has a history log and, after a compaction, a summary
DocumentWithHistory ==
    [key \in DOMAIN initializeState \cup {"history"} |->
        IF key = "history" THEN << "earlier" >>
        ELSE IF key = "summaries" THEN << SummaryEntry(Text(0, 40)) >>
        ELSE initializeState[key]]

\* undefined
Undefined == << >>

\* getSaveData, lines 257-264
getSaveData(st, context) ==
    [state |-> st, initialContext |-> context, timestamp |-> "now", version |-> "1.0.0"]

\* saveState, lines 286-288
saveState(st) == st

\* JSON.parse(JSON.stringify(data)) of save data: strings, numbers, booleans,
\* null, arrays and plain objects come back as they were
JsonRoundTrip(data) == data

IsInvalidSaveNever(saveData) == FALSE

\* Line 271: !saveData || !saveData.state
IsInvalidSave(saveData) == ~Has(saveData, "state")

\* loadSaveData, lines 270-277: the document and context afterwards, and
\* whether it threw
loadSaveData(st, context, saveData) ==
    IF IsInvalidSave(saveData)
      THEN [state |-> st, initialContext |-> context, threw |-> TRUE]
      ELSE [state |-> IF Has(saveData, "state") THEN saveData.state ELSE Undefined,
            initialContext |-> IF Has(saveData, "initialContext")
                                 THEN saveData.initialContext
                                 ELSE FallbackInitialContext,
            threw |-> FALSE]

\* The save data a load can be given: none, the file last saved, an object
\* without a state key, and a snapshot made elsewhere
LoadPayloads ==
    { NoSave, saved, [initialContext |-> "a context"],
      getSaveData(DocumentWithHistory, "a context") }

CompletesQuest(patch) == Has(patch, "quests") /\ Has(patch.quests, "completeQuest")

\* The record of an operation: its number, name and argument, the document
\* and context it found, and whether it threw
OpRecord(name, arg, threw) ==
    [n |-> op.n + 1, name |-> name, arg |-> arg, before |-> state,
     beforeContext |-> initialContext, threw |-> threw, twice |-> FALSE,
     result |-> << >>]

\* A GameManager between operations: before the API key was accepted, or
\* with a game running and the opening sequence shown
StoreInit ==
    /\ state = initializeState
    /\ apiKey = NoKey
    /\ mch = MchIdle
    /\ handed = <<>>
    /\ sources = <<>>
    /\ serial = 0
    /\ appends = 0
    /\ compacts = 0
    /\ imageFrequency = "major-scenes"
    /\ pendingOperations = 0
    /\ turns = [t \in TurnIds |-> NoTurn]
    /\ \/ /\ isInitialized = FALSE
          /\ isGameRunning = FALSE
          /\ isWaitingForAction = FALSE
          /\ keyPc = "none"
          /\ games = [g \in GameIds |-> NoGame]
       \/ /\ isInitialized = TRUE
          /\ isGameRunning = TRUE
          /\ isWaitingForAction = TRUE
          /\ keyPc = "done"
          /\ games = [g \in GameIds |->
                         IF g = 1 THEN [pc |-> "done", ret |-> "true"] ELSE NoGame]
    /\ GameStateInit

\* gameState.updateState(patch)
UpdateState(patch) ==
    /\ op.n < MaxOps
    /\ LET r == updateState(state, patch)
       IN  /\ state' = r.state
           /\ op' = [OpRecord("updateState", patch, r.threw) EXCEPT
                       !.twice = /\ CompletesQuest(patch)
                                 /\ op.name = "updateState"
                                 /\ ~op.threw
                                 /\ CompletesQuest(op.arg)
                                 /\ op.arg.quests.completeQuest = patch.quests.completeQuest
                                 /\ op.before.quests.current = patch.quests.completeQuest]
    /\ UNCHANGED <<apiKey, mch, serial, histVars, mgrVars, initialContext, saved>>

\* gameState.getSaveData()
GetSaveData ==
    /\ op.n < MaxOps
    /\ saved' = JsonRoundTrip(getSaveData(state, initialContext))
    /\ op' = OpRecord("getSaveData", << >>, FALSE)
    /\ UNCHANGED <<state, apiKey, mch, serial, histVars, mgrVars, initialContext>>

\* gameState.loadSaveData(saveData)
LoadSaveData(saveData) ==
    /\ op.n < MaxOps
    /\ LET r == loadSaveData(state, initialContext, saveData)
       IN  /\ state' = r.state
           /\ initialContext' = r.initialContext
           /\ op' = OpRecord("loadSaveData", saveData, r.threw)
    /\ UNCHANGED <<apiKey, mch, serial, histVars, mgrVars, saved>>

\* gameState.resetState(), lines 282-284
ResetState ==
    /\ op.n < MaxOps
    /\ state' = resetState(state)
    /\ initialContext' = DefaultInitialContext
    /\ op' = OpRecord("resetState", << >>, FALSE)
    /\ UNCHANGED <<apiKey, mch, serial, histVars, mgrVars, saved>>

\* GameManager.saveGame, lines 192-216: the file holds what saveState returns
SaveGame ==
    /\ op.n < MaxOps
    /\ IF ~isInitialized \/ ~isGameRunning
         THEN /\ saved' = saved
              /\ op' = OpRecord("saveGame", << >>, TRUE)
         ELSE /\ saved' = JsonRoundTrip(saveState(state))
              /\ op' = OpRecord("saveGame", << >>, FALSE)
    /\ UNCHANGED <<state, apiKey, mch, serial, histVars, mgrVars, initialContext>>

\* GameManager.loadGame with a file chosen, lines 147-178: line 151 throws, or
\* line 154 does (GameState has no loadState); the catch shows an error
LoadGameFile(saveData) ==
    /\ op.n < MaxOps
    /\ op' = OpRecord("loadGame", saveData, TRUE)
    /\ UNCHANGED <<state, apiKey, mch, serial, histVars, mgrVars, initialContext, saved>>

\* The names getNpcState and updateNpcState are called with: an NPC of the
\* default document and one it does not have
NpcNames == {"NurseJoohee", "HunterKim"}

\* The changes given to updateNpcState: a field the default NPC has, fields
\* it lacks, and a field whose value is an object
NpcChangeSets ==
    { [relationship |-> "trusting"],
      [lastSeen |-> "gate", notes |-> [trust |-> 1]],
      [notes |-> [fear |-> 2]] }

\* gameState.getNpcState(npcName)
GetNpcState(npcName) ==
    /\ op.n < MaxOps
    /\ op' = [OpRecord("getNpcState", npcName, FALSE) EXCEPT
                !.result = getNpcState(state, npcName)]
    /\ UNCHANGED <<state, apiKey, mch, serial, histVars, mgrVars, initialContext, saved>>

\* gameState.updateNpcState(npcName, changes)
UpdateNpcState(npcName, changes) ==
    /\ op.n < MaxOps
    /\ state' = updateNpcState(state, npcName, changes)
    /\ op' = OpRecord("updateNpcState", [npcName |-> npcName, changes |-> changes], FALSE)
    /\ UNCHANGED <<apiKey, mch, serial, histVars, mgrVars, initialContext, saved>>

StoreNext ==
    \/ \E patch \in StorePatches : UpdateState(patch)
    \/ \E npcName \in NpcNames : GetNpcState(npcName)
    \/ \E npcName \in NpcNames, changes \in NpcChangeSets :
           UpdateNpcState(npcName, changes)
    \/ GetSaveData
    \/ \E saveData \in LoadPayloads : LoadSaveData(saveData)
    \/ ResetState
    \/ SaveGame
    \/ \E saveData \in LoadPayloads : LoadGameFile(saveData)

SpecStore == StoreInit /\ [][StoreNext]_vars

-----------------------------------------------------------------------------
(* Spec: the orchestrator (js/gameManager.js) *)

Init ==
    /\ state = initializeState
    /\ apiKey = NoKey
    /\ mch = MchIdle
    /\ handed = <<>>
    /\ sources = <<>>
    /\ serial = 0
    /\ appends = 0
    /\ compacts = 0
    /\ MgrInit
    /\ GameStateInit

TurnInFlight(t) == turns[t].pc \notin {"none", "done"}

GameInFlight(g) == games[g].pc \notin {"none", "done"}

\* The finally block of handlePlayerAction, lines 343-350
Finally(pending) == IF pending - 1 <= 0 THEN 0 ELSE pending - 1

\* The action gate, line 224
GateOpen == isInitialized /\ isGameRunning /\ isWaitingForAction

\* ---- startNewGame, lines 70-130 ----

\* Lines 71-84, up to the generateOpeningSequence call
StartNewGameBody(g, initialized) ==
    IF ~initialized
      THEN /\ games' = [games EXCEPT ![g] = [pc |-> "done", ret |-> "false"]]
           /\ pendingOperations' = 0
           /\ state' = state
      ELSE /\ games' = [games EXCEPT ![g].pc = "opening"]
           /\ pendingOperations' = 1
           /\ state' = resetState(state)

\* The new-game button (lines 413-426) or any other caller of startNewGame
StartNewGame(g) ==
    /\ games[g].pc = "none"
    /\ \A h \in GameIds : h < g => games[h].pc # "none"
    /\ StartNewGameBody(g, isInitialized)
    /\ UNCHANGED <<apiKey, mch, serial, histVars, isInitialized, isGameRunning,
                   isWaitingForAction, imageFrequency, keyPc, turns, storeVars>>

\* Lines 106-112 and the finally of 117-121
GameCompletes(g) ==
    /\ games' = [games EXCEPT ![g] = [pc |-> "done", ret |-> "true"]]
    /\ isGameRunning' = TRUE
    /\ isWaitingForAction' = TRUE
    /\ pendingOperations' = 0

\* generateOpeningSequence resolves, lines 84-104
OpeningReturn(g, opening) ==
    /\ games[g].pc = "opening"
    /\ LET u == IF Has(opening, "stateChanges")
                  THEN updateState(state, opening.stateChanges)
                  ELSE [state |-> state, threw |-> FALSE]
       IN  /\ state' = u.state
           /\ IF u.threw
                THEN /\ games' = [games EXCEPT ![g] = [pc |-> "done", ret |-> "false"]]
                     /\ pendingOperations' = 0
                     /\ UNCHANGED <<isGameRunning, isWaitingForAction>>
              ELSE IF imageFrequency # "never"
                THEN /\ games' = [games EXCEPT ![g].pc = "image"]
                     /\ UNCHANGED <<isGameRunning, isWaitingForAction, pendingOperations>>
              ELSE GameCompletes(g)
    /\ UNCHANGED <<apiKey, mch, serial, histVars, isInitialized, imageFrequency,
                   keyPc, turns, storeVars>>

\* generateOpeningSequence rejects: the innerError catch, lines 113-121
OpeningFail(g) ==
    /\ games[g].pc = "opening"
    /\ games' = [games EXCEPT ![g] = [pc |-> "done", ret |-> "false"]]
    /\ pendingOperations' = 0
    /\ UNCHANGED <<state, apiKey, mch, serial, histVars, isInitialized, isGameRunning,
                   isWaitingForAction, imageFrequency, keyPc, turns, storeVars>>

\* generateImage resolves or rejects (the rejection is caught at 101-103)
GameImageEnd(g) ==
    /\ games[g].pc = "image"
    /\ GameCompletes(g)
    /\ UNCHANGED <<state, apiKey, mch, serial, histVars, isInitialized,
                   imageFrequency, keyPc, turns, storeVars>>

\* ---- the API key submission handler, lines 359-389 ----

\* Lines 360-371, up to the test call of generateOpeningSequence
SubmitApiKey ==
    /\ keyPc = "none"
    /\ keyPc' = "testing"
    /\ UNCHANGED <<state, apiKey, mch, serial, histVars, isInitialized, isGameRunning,
                   isWaitingForAction, pendingOperations, imageFrequency, games, turns, storeVars>>

\* The test call resolves, lines 372-379
KeyTestReturn(g, testResponse) ==
    /\ keyPc = "testing"
    /\ IF testResponse.narration = NoText
         THEN /\ keyPc' = "none"
              /\ UNCHANGED <<state, isInitialized, pendingOperations, games>>
         ELSE /\ games[g].pc = "none"
              /\ \A h \in GameIds : h < g => games[h].pc # "none"
              /\ keyPc' = "done"
              /\ isInitialized' = TRUE
              /\ StartNewGameBody(g, TRUE)
    /\ UNCHANGED <<apiKey, mch, serial, histVars, isGameRunning, isWaitingForAction,
                   imageFrequency, turns, storeVars>>

\* The test call rejects, lines 380-388
KeyTestFail ==
    /\ keyPc = "testing"
    /\ keyPc' = "none"
    /\ UNCHANGED <<state, apiKey, mch, serial, histVars, isInitialized, isGameRunning,
                   isWaitingForAction, pendingOperations, imageFrequency, games, turns, storeVars>>

\* ---- loadGame, lines 137-186 ----

\* The chosen file is read and parsed; then line 151 throws, or line 154
\* throws a TypeError (GameState has no loadState); the catch of 174-177
\* shows an error
LoadGame ==
    /\ UNCHANGED vars

\* ---- handlePlayerAction, lines 223-351 ----

\* Lines 224-226: the gate is closed, the call returns false
RejectAction ==
    /\ ~GateOpen
    /\ UNCHANGED vars

\* Lines 229-241, up to the validatePlayerAction call
AcceptAction(t, words) ==
    /\ GateOpen
    /\ turns[t].pc = "none"
    /\ \A u \in TurnIds : u < t => turns[u].pc # "none"
    /\ isWaitingForAction' = FALSE
    /\ pendingOperations' = pendingOperations + 1
    /\ turns' = [turns EXCEPT ![t].pc = "validating",
                              ![t].action = Text(serial + 1, words)]
    /\ serial' = serial + 1
    /\ UNCHANGED <<state, apiKey, mch, histVars, isInitialized, isGameRunning,
                   imageFrequency, keyPc, games, storeVars>>

\* A turn ends: its return value, then the finally block of lines 343-350
TurnEnds(t, rec, ret, how) ==
    /\ turns' = [turns EXCEPT ![t] = [rec EXCEPT !.pc = "done", !.ret = ret, !.how = how]]
    /\ pendingOperations' = Finally(pendingOperations)

TurnCatchGateShut(t, rec, how) ==
    /\ UNCHANGED isWaitingForAction
    /\ TurnEnds(t, rec, "false", how)

\* The catch block, lines 334-342
TurnCatch(t, rec, how) ==
    /\ isWaitingForAction' = TRUE
    /\ TurnEnds(t, rec, "false", how)

\* The invalid verdict, lines 243-250
InvalidReturn(t, rec) ==
    /\ isWaitingForAction' = TRUE
    /\ TurnEnds(t, rec, "false", "invalid")

\* The end of the try block, lines 326-333
SuccessReturn(t, rec) ==
    /\ isWaitingForAction' = TRUE
    /\ TurnEnds(t, rec, "true", "success")

\* The turn goes on to its next awaited call
TurnAwaits(t, rec, pc) ==
    /\ turns' = [turns EXCEPT ![t] = [rec EXCEPT !.pc = pc]]
    /\ UNCHANGED <<isWaitingForAction, pendingOperations>>

IsInvalidNever(verdict) == FALSE

\* Line 243
IsInvalid(verdict) == ~verdict.valid

\* Line 254
InvolvesNpc(verdict) == verdict.involveNPC /\ Has(verdict, "npcName")

\* Line 318
WantsImage(verdict, frequency) == verdict.newScene /\ frequency # "never"

\* validatePlayerAction resolves, lines 241-268
ValidationReturn(t, verdict) ==
    /\ turns[t].pc = "validating"
    /\ LET rec == [turns[t] EXCEPT !.verdict = verdict]
       IN  IF IsInvalid(verdict) THEN InvalidReturn(t, rec)
           ELSE IF InvolvesNpc(verdict) THEN TurnAwaits(t, rec, "npc")
           ELSE TurnAwaits(t, rec, "narrating")
    /\ UNCHANGED <<state, apiKey, mch, serial, histVars, isInitialized, isGameRunning,
                   imageFrequency, keyPc, games, storeVars>>

\* An awaited call of the turn rejects: validatePlayerAction,
\* generateNPCResponse, generateNarration or generateImage
CallFails(t) ==
    /\ turns[t].pc \in {"validating", "npc", "narrating", "image"}
    /\ TurnCatch(t, turns[t], turns[t].pc)
    /\ UNCHANGED <<state, apiKey, mch, serial, histVars, isInitialized, isGameRunning,
                   imageFrequency, keyPc, games, storeVars>>

\* generateNPCResponse resolves, lines 263-292
NpcReturn(t, npcResponse) ==
    /\ turns[t].pc = "npc"
    /\ state' = IF Has(npcResponse, "npcChanges")
                  THEN updateNpcState(state, turns[t].verdict.npcName,
                                      npcResponse.npcChanges)
                  ELSE state
    /\ TurnAwaits(t, [turns[t] EXCEPT !.npcResponse = npcResponse], "narrating")
    /\ UNCHANGED <<apiKey, mch, serial, histVars, isInitialized, isGameRunning,
                   imageFrequency, keyPc, games, storeVars>>

\* What generateNarration resolves to: {narration} or {narration,
\* stateChanges} (modelManager.js 257-277); id names the narration text
NarrationResults(id) ==
    { [narration |-> Text(id, w)] : w \in TurnNarrationWords }
    \cup { [narration |-> Text(id, w), stateChanges |-> p] :
              w \in TurnNarrationWords, p \in Patches }

ApplyChangesRolledBack(st, key, action, narrationResult) ==
    LET u == updateState(st, narrationResult.stateChanges)
        pushed == [u.state EXCEPT !.conversationHistory =
                       PushTurn(@, action, narrationResult.narration)]
        r == ManageCall(pushed, key)
    IN  IF u.threw
          THEN [state |-> st, mch |-> mch, how |-> "updateState"]
        ELSE IF r.mch.result = "initFailed"
          THEN [state |-> st, mch |-> r.mch, how |-> "manageConversationHistory"]
        ELSE [state |-> r.state, mch |-> r.mch, how |-> "applied"]

\* Lines 300-315: updateState, the two pushes and manageConversationHistory.
\* The document afterwards, the invocation record, and how the block ended.
ApplyChanges(st, key, action, narrationResult) ==
    LET u == updateState(st, narrationResult.stateChanges)
        pushed == [u.state EXCEPT !.conversationHistory =
                       PushTurn(@, action, narrationResult.narration)]
        r == ManageCall(pushed, key)
    IN  IF u.threw
          THEN [state |-> u.state, mch |-> mch, how |-> "updateState"]
        ELSE IF r.mch.result = "initFailed"
          THEN [state |-> r.state, mch |-> r.mch, how |-> "manageConversationHistory"]
        ELSE [state |-> r.state, mch |-> r.mch, how |-> "applied"]

RecordTurnAlways(st, key, action, narrationResult) ==
    IF Has(narrationResult, "stateChanges")
      THEN ApplyChanges(st, key, action, narrationResult)
      ELSE LET pushed == [st EXCEPT !.conversationHistory =
                              PushTurn(@, action, narrationResult.narration)]
               r == ManageCall(pushed, key)
           IN  [state |-> r.state, mch |-> r.mch,
                how |-> IF r.mch.result = "initFailed"
                          THEN "manageConversationHistory" ELSE "applied"]

\* Lines 299-315: the block runs only when the result carries stateChanges
RecordTurn(st, key, action, narrationResult) ==
    IF Has(narrationResult, "stateChanges")
      THEN ApplyChanges(st, key, action, narrationResult)
      ELSE [state |-> st, mch |-> mch, how |-> "applied"]

\* generateNarration resolves, lines 287-333.  GameState.apiKey is NoKey, so
\* manageConversationHistory returns or throws before any summarizeHistory call.
NarrationReturn(t, narrationResult) ==
    /\ turns[t].pc = "narrating"
    /\ LET a == RecordTurn(state, apiKey, turns[t].action, narrationResult)
           rec == [turns[t] EXCEPT !.result = narrationResult]
       IN  /\ a.mch.pc = "idle"
           /\ state' = a.state
           /\ mch' = a.mch
           /\ IF a.how # "applied" THEN TurnCatch(t, rec, a.how)
              ELSE IF WantsImage(turns[t].verdict, imageFrequency)
                THEN TurnAwaits(t, rec, "image")
              ELSE SuccessReturn(t, rec)
    /\ serial' = serial + 1
    /\ UNCHANGED <<apiKey, histVars, isInitialized, isGameRunning,
                   imageFrequency, keyPc, games, storeVars>>

\* generateImage resolves, lines 320-333
ImageReturn(t) ==
    /\ turns[t].pc = "image"
    /\ SuccessReturn(t, turns[t])
    /\ UNCHANGED <<state, apiKey, mch, serial, histVars, isInitialized, isGameRunning,
                   imageFrequency, keyPc, games, storeVars>>

\* The awaited calls of turn t: each returns or fails
TurnProgress(t) ==
    \/ \E verdict \in Verdicts : ValidationReturn(t, verdict)
    \/ \E npcResponse \in NpcResponses : NpcReturn(t, npcResponse)
    \/ \E narrationResult \in NarrationResults(serial + 1) :
           NarrationReturn(t, narrationResult)
    \/ ImageReturn(t)
    \/ CallFails(t)

Next ==
    \/ SubmitApiKey
    \/ \E g \in GameIds, testResponse \in OpeningResults \cup {[narration |-> NoText]} :
           KeyTestReturn(g, testResponse)
    \/ KeyTestFail
    \/ \E g \in GameIds : StartNewGame(g)
    \/ \E g \in GameIds, opening \in OpeningResults : OpeningReturn(g, opening)
    \/ \E g \in GameIds : OpeningFail(g)
    \/ \E g \in GameIds : GameImageEnd(g)
    \/ LoadGame
    \/ RejectAction
    \/ \E t \in TurnIds, words \in TurnActionWords : AcceptAction(t, words)
    \/ \E t \in TurnIds : TurnProgress(t)

Spec == Init /\ [][Next]_vars

\* Every external call of a turn eventually returns or fails
FairSpec == Spec /\ \A t \in TurnIds : WF_vars(TurnProgress(t))

-----------------------------------------------------------------------------------------------------------------------------------------------------
(* SpecKeyed: the orchestrator with a game running, on a GameState whose     *)
(* apiKey field holds a key, so that manageConversationHistory (gameState.js *)
(* 214-215) gets past ModelManager.initialize and calls the summarizer       *)

KeyedInit ==
    /\ state = initializeState
    /\ apiKey = SomeKey
    /\ mch = MchIdle
    /\ handed = <<>>
    /\ sources = <<>>
    /\ serial = 0
    /\ appends = 0
    /\ compacts = 0
    /\ imageFrequency \in ImageFrequencies
    /\ pendingOperations = 0
    /\ turns = [t \in TurnIds |-> NoTurn]
    /\ isInitialized = TRUE
    /\ isGameRunning = TRUE
    /\ isWaitingForAction = TRUE
    /\ keyPc = "done"
    /\ games = [g \in GameIds |->
                   IF g = 1 THEN [pc |-> "done", ret |-> "true"] ELSE NoGame]
    /\ GameStateInit

\* A narration long enough to put the history over the budget at once
LongNarrationWords == {15100}

LongNarrationResults(id) ==
    { [narration |-> Text(id, w), stateChanges |-> ExperiencePatch] :
          w \in LongNarrationWords }

\* generateNarration resolves and, at line 313, manageConversationHistory
\* trims the history and suspends at its first summarizeHistory call (241/248)
NarrationStartsCompaction(t, narrationResult) ==
    /\ turns[t].pc = "narrating"
    /\ Has(narrationResult, "stateChanges")
    /\ LET a == ApplyChanges(state, apiKey, turns[t].action, narrationResult)
           rec == [turns[t] EXCEPT !.result = narrationResult, !.compaction = a.mch]
       IN  /\ a.how = "applied"
           /\ a.mch.pc = "summarizing"
           /\ state' = a.state
           /\ mch' = a.mch
           /\ handed' = handed \o a.mch.handedNow
           /\ TurnAwaits(t, rec, "summarizing")
    /\ serial' = serial + 1
    /\ UNCHANGED <<apiKey, sources, appends, compacts, isInitialized, isGameRunning,
                   imageFrequency, keyPc, games, storeVars>>

\* summarizeHistory resolves for turn t: the summary is pushed (242/249); the
\* chunk loop suspends at its next call, or manageConversationHistory
\* returns and the turn goes on from line 314
TurnSummarizeReturn(t, result) ==
    /\ turns[t].pc = "summarizing"
    /\ state' = [state EXCEPT !.summaries =
                     PushSummary(@, SummaryEntry(summarizeHistory(result)))]
    /\ sources' = Append(sources, turns[t].compaction.chunk)
    /\ LET c == turns[t].compaction
       IN  IF c.rest # <<>>
             THEN LET next == [c EXCEPT !.chunk = ChunkTexts(c.rest),
                                        !.rest = AfterChunk(c.rest),
                                        !.handedNow = Append(@, ChunkTexts(c.rest))]
                  IN  /\ handed' = Append(handed, ChunkTexts(c.rest))
                      /\ mch' = next
                      /\ TurnAwaits(t, [turns[t] EXCEPT !.compaction = next], "summarizing")
             ELSE LET done == [c EXCEPT !.pc = "idle", !.chunk = <<>>, !.result = "returned"]
                      rec == [turns[t] EXCEPT !.compaction = done]
                  IN  /\ handed' = handed
                      /\ mch' = done
                      /\ IF WantsImage(turns[t].verdict, imageFrequency)
                           THEN TurnAwaits(t, rec, "image")
                           ELSE SuccessReturn(t, rec)
    /\ UNCHANGED <<apiKey, serial, appends, compacts, isInitialized, isGameRunning,
                   imageFrequency, keyPc, games, storeVars>>

\* summarizeHistory rejects: manageConversationHistory rejects, and the turn
\* ends in the catch block
TurnSummarizeFail(t) ==
    /\ turns[t].pc = "summarizing"
    /\ LET failed == [turns[t].compaction EXCEPT !.pc = "idle", !.chunk = <<>>,
                          !.rest = <<>>, !.result = "summarizerFailed"]
       IN  /\ mch' = failed
           /\ TurnCatch(t, [turns[t] EXCEPT !.compaction = failed],
                        "manageConversationHistory")
    /\ UNCHANGED <<state, apiKey, serial, histVars, isInitialized, isGameRunning,
                   imageFrequency, keyPc, games, storeVars>>

KeyedTurnProgress(t) ==
    \/ TurnProgress(t)
    \/ \E narrationResult \in NarrationResults(serial + 1) \cup LongNarrationResults(serial + 1) :
           NarrationStartsCompaction(t, narrationResult)
    \/ \E result \in SummarizerResults : TurnSummarizeReturn(t, result)
    \/ TurnSummarizeFail(t)

KeyedNext ==
    \/ \E g \in GameIds : StartNewGame(g)
    \/ \E g \in GameIds, opening \in OpeningResults : OpeningReturn(g, opening)
    \/ \E g \in GameIds : OpeningFail(g)
    \/ \E g \in GameIds : GameImageEnd(g)
    \/ RejectAction
    \/ \E t \in TurnIds, words \in TurnActionWords : AcceptAction(t, words)
    \/ \E t \in TurnIds : KeyedTurnProgress(t)

SpecKeyed == KeyedInit /\ [][KeyedNext]_vars

-----
(* Properties of the orchestrator *)

\* No handlePlayerAction invocation is between its acceptance and its return
Idle == \A t \in TurnIds : ~TurnInFlight(t)

\* C2: whenever no turn is in flight, the live conversation history totals
\* at most 20,000 tokens.
C2_IdleWithinBudget ==
    Idle => SumTokens(state.conversationHistory) <= Budget

\* C3: handlePlayerAction accepts an action only when no other turn is in
\* progress; a submission made while an earlier turn is suspended at an
\* external call is not accepted.
C3_AcceptsOnlyWhenIdle ==
    [][\A t \in TurnIds :
          (turns[t].pc = "none" /\ turns'[t].pc # "none") => Idle]_vars

OperationsInFlight ==
    Cardinality({t \in TurnIds : TurnInFlight(t)})
    + Cardinality({g \in GameIds : GameInFlight(g)})

\* C4: at most one of the handlePlayerAction, startNewGame and loadGame
\* invocations is in flight at any time.
C4_OneOperationInFlight == OperationsInFlight <= 1

\* C5: every accepted turn eventually returns, with isWaitingForAction true
\* again, provided every external call eventually returns or fails.
C5_TurnReturnsToIdle ==
    \A t \in TurnIds :
        TurnInFlight(t) ~> (turns[t].pc = "done" /\ isWaitingForAction)

\* A turn has ended in the catch block and the gate is open again
C5_Witness ==
    \E t \in TurnIds :
        /\ turns[t].pc = "done"
        /\ turns[t].how \in {"validating", "npc", "narrating", "image",
                             "updateState", "manageConversationHistory"}
        /\ isWaitingForAction

\* C6: the step at which the validator's verdict with valid false arrives ends
\* the turn with false, opens the gate, and changes neither the game state
\* document (NPC records, conversation history and summaries included) nor any
\* other invocation: no further call is made.  The step that accepted the
\* action changed no document either.
C6_InvalidVerdictChangesNothing ==
    [][\A t \in TurnIds :
          /\ ( turns[t].pc = "none" /\ turns'[t].pc = "validating" )
             => ( state' = state /\ mch' = mch )
          /\ ( /\ turns[t].pc = "validating"
               /\ turns'[t].verdict # NoVerdict
               /\ ~turns'[t].verdict.valid )
             => ( /\ turns'[t].pc = "done"
                  /\ turns'[t].ret = "false"
                  /\ isWaitingForAction'
                  /\ state' = state
                  /\ mch' = mch
                  /\ handed' = handed
                  /\ games' = games
                  /\ \A u \in TurnIds \ {t} : turns'[u] = turns[u] )]_vars

\* A turn has ended on an invalid verdict
C6_Witness ==
    \E t \in TurnIds :
        /\ turns[t].pc = "done"
        /\ turns[t].verdict # NoVerdict
        /\ ~turns[t].verdict.valid
        /\ turns[t].how = "invalid"

\* C7: a turn with a valid verdict without NPC involvement whose narrator
\* result carried stateChanges (none of them a history patch), and whose
\* illustration call, if any, did not fail, ends reporting success.
C7_ValidTurnReportsSuccess ==
    \A t \in TurnIds :
        ( /\ turns[t].pc = "done"
          /\ turns[t].verdict # NoVerdict
          /\ turns[t].verdict.valid
          /\ ~turns[t].verdict.involveNPC
          /\ Has(turns[t].result, "stateChanges")
          /\ ~Has(turns[t].result.stateChanges, "history")
          /\ turns[t].how # "image" )
        => turns[t].ret = "true"


\* The dialogue response carries changes to NPC records: as npcChanges, the
\* key handlePlayerAction reads (line 289), or among the stateChanges that
\* _callModel builds from the dialogue model's function calls
CarriesNpcChanges(npcResponse) ==
    \/ Has(npcResponse, "npcChanges")
    \/ Has(npcResponse, "stateChanges") /\ Has(npcResponse.stateChanges, "NPCs")

NpcChangesOf(npcResponse, npcName) ==
    IF Has(npcResponse, "npcChanges") THEN npcResponse.npcChanges
    ELSE npcResponse.stateChanges.NPCs[npcName]

\* C27: a turn enters its NPC step only on a verdict that has both involveNPC
\* and an npcName; and when the dialogue response carries changes to the NPC's
\* record, the step that goes on to the narrator's call has merged them into
\* the record, so that the narration call sees the updated record.
C27_NpcChangesBeforeNarration ==
    [][\A t \in TurnIds :
          /\ ( turns[t].pc # "npc" /\ turns'[t].pc = "npc" )
             => ( turns'[t].verdict.involveNPC /\ Has(turns'[t].verdict, "npcName") )
          /\ ( /\ turns[t].pc = "npc"
               /\ turns'[t].pc = "narrating"
               /\ CarriesNpcChanges(turns'[t].npcResponse) )
             => LET npcName == turns[t].verdict.npcName
                    changes == NpcChangesOf(turns'[t].npcResponse, npcName)
                IN  \A key \in DOMAIN changes :
                        /\ Has(state'.NPCs, npcName)
                        /\ Has(state'.NPCs[npcName], key)
                        /\ state'.NPCs[npcName][key] = changes[key] ]_vars


\* Turn t ends in the catch block in this step
EndsInCatch(t) ==
    /\ TurnInFlight(t)
    /\ turns'[t].pc = "done"
    /\ turns'[t].ret = "false"
    /\ turns'[t].how # "invalid"

\* C28: the step in which a turn fails rolls nothing back.  When an awaited
\* call fails (validation, dialogue, narration, illustration) the document
\* stays as the turn had made it; when manageConversationHistory fails, the
\* state changes merged and the two history entries pushed just before it
\* are in the document the turn leaves behind.
C28_NothingRolledBack ==
    [][\A t \in TurnIds :
          EndsInCatch(t) =>
              /\ turns'[t].how \in {"validating", "npc", "narrating", "image"}
                    => state' = state
              /\ ( /\ turns'[t].how = "manageConversationHistory"
                   /\ turns'[t].result.stateChanges = ExperiencePatch )
                    => state' =
                         [state EXCEPT
                            !.player.experience = 10,
                            !.conversationHistory = @ \o
                               << [role |-> "Sung Jinwoo", text |-> turns[t].action,
                                   tokens |-> estimateTokens(turns[t].action)],
                                  [role |-> "Narrator",
                                   text |-> turns'[t].result.narration,
                                   tokens |-> estimateTokens(turns'[t].result.narration)] >>] ]_vars

\* A turn has failed in manageConversationHistory, or at its illustration,
\* and the experience its state changes set is in the document
C28_Witness ==
    \E t \in TurnIds :
        /\ turns[t].pc = "done"
        /\ turns[t].ret = "false"
        /\ turns[t].how \in {"manageConversationHistory", "image"}
        /\ Has(turns[t].result, "stateChanges")
        /\ turns[t].result.stateChanges = ExperiencePatch
        /\ state.player.experience = 10
        /\ \E i \in 1..Len(state.conversationHistory) :
               state.conversationHistory[i].text = turns[t].result.narration


\* The summarizeHistory calls awaited at this moment
SummarizerCallsInFlight ==
    Cardinality({t \in TurnIds : turns[t].pc = "summarizing"})

NarratedWithoutChanges(t) ==
    /\ turns[t].pc = "narrating"
    /\ turns'[t].result # turns[t].result
    /\ ~Has(turns'[t].result, "stateChanges")

\* C40: when the narrator's result of a valid turn carries no stateChanges,
\* the step that takes it appends no entry, runs no compaction and leaves
\* conversationHistory, summaries and the rest of the document as they were.
C40_NoChangesNothingRecorded ==
    [][\A t \in TurnIds :
          NarratedWithoutChanges(t) =>
              /\ state'.conversationHistory = state.conversationHistory
              /\ state'.summaries = state.summaries
              /\ state' = state
              /\ mch' = mch
              /\ handed' = handed
              /\ turns'[t].how # "manageConversationHistory" ]_vars

\* A valid turn was narrated without stateChanges and returned true, and the
\* history log holds nothing
C40_Witness ==
    \E t \in TurnIds :
        /\ turns[t].pc = "done"
        /\ turns[t].ret = "true"
        /\ turns[t].verdict.valid
        /\ turns[t].result.narration # NoText
        /\ ~Has(turns[t].result, "stateChanges")
        /\ state.conversationHistory = << >>

-----------------------------------------------------------------------------
(* Properties of the GameState operations *)

HPPatch == [player |-> [HP |-> 50]]

\* C11: updateState({player: {HP: 50}}) does not throw, sets player.HP to 50
\* and leaves every other player field and every other part of the document
\* as it was.
C11_MergeChangesOnlyNamedLeaf ==
    ( op.name = "updateState" /\ op.arg = HPPatch )
    => ( /\ ~op.threw
         /\ state = [op.before EXCEPT !.player.HP = 50] )

\* The HP patch was applied to a document that an earlier operation changed
C11_Witness ==
    /\ op.name = "updateState"
    /\ op.arg = HPPatch
    /\ op.before # initializeState
    /\ op.before.player.HP # 50
    /\ state.player.HP = 50

\* C12: the player inventory holds at most one stack per lower-cased item
\* name.
C12_OneStackPerName ==
    LET inventory == state.player.inventory
    IN  \A i, j \in 1..Len(inventory) :
            i # j => toLowerCase(inventory[i].name) # toLowerCase(inventory[j].name)


\* The patches of ToolFunctions.updateInventory: one item to add or to remove
AddsItem == op.name = "updateState" /\ Has(op.arg, "player")
                /\ Has(op.arg.player, "inventoryAdd")

RemovesItem == op.name = "updateState" /\ Has(op.arg, "player")
                   /\ Has(op.arg.player, "inventoryRemove")

\* The stacks of an inventory whose name equals the given one up to letter case
Matches(inventory, name) ==
    {i \in 1..Len(inventory) : toLowerCase(inventory[i].name) = toLowerCase(name)}

PotionTwice == [player |-> [inventoryAdd |-> << [name |-> "Potion", quantity |-> 2] >>]]

\* C13: inventoryAdd matches names case-insensitively. Adding an item whose
\* name equals an existing stack's name up to letter case raises that stack's
\* quantity by the given quantity (1 when unspecified) and adds no stack;
\* adding an unmatched name appends one new stack with the given quantity (1
\* when unspecified); the rest of the document is unchanged, and adding
\* {Potion, 2} to the inventory that one such addition made of the empty
\* inventory leaves exactly one stack, of quantity 4.
C13_InventoryAddStacks ==
    AddsItem =>
        LET item == op.arg.player.inventoryAdd[1]
            given == IF Has(item, "quantity") THEN item.quantity ELSE 1
            old == op.before.player.inventory
            new == state.player.inventory
        IN  /\ ~op.threw
            /\ state = [op.before EXCEPT !.player.inventory = new]
            /\ IF Matches(old, item.name) # {}
                 THEN \E i \in Matches(old, item.name) :
                          new = [old EXCEPT ![i].quantity = @ + given]
                 ELSE new = Append(old, [name |-> item.name, quantity |-> given])
            /\ ( op.arg = PotionTwice /\ old = << [name |-> "Potion", quantity |-> 2] >> )
                   => new = << [name |-> "Potion", quantity |-> 4] >>

\* {Potion, 2} was added twice to the empty inventory: one stack of 4
C13_Witness ==
    /\ AddsItem
    /\ op.arg = PotionTwice
    /\ op.before.player.inventory = << [name |-> "Potion", quantity |-> 2] >>
    /\ state.player.inventory = << [name |-> "Potion", quantity |-> 4] >>

\* C14: inventoryRemove for a name that matches no stack of the inventory,
\* whatever the letter case, changes nothing in the document and raises no
\* error.
C14_RemoveAbsentIsNoOp ==
    ( RemovesItem
      /\ Matches(op.before.player.inventory, op.arg.player.inventoryRemove[1].name) = {} )
    => ( ~op.threw /\ state = op.before )

C14_Witness ==
    /\ RemovesItem
    /\ Matches(op.before.player.inventory, op.arg.player.inventoryRemove[1].name) = {}
    /\ op.before.player.inventory # <<>>
    /\ op.before # initializeState
    /\ state = op.before


\* How many times a name occurs in a list
RECURSIVE Count(_, _)
Count(list, name) ==
    IF list = <<>> THEN 0
    ELSE (IF Head(list) = name THEN 1 ELSE 0) + Count(Tail(list), name)

\* C15: when the completion of the current quest is applied twice in a row
\* with the same name, quests.completed holds that name exactly once.
C15_CompletedOnce ==
    ( op.name = "updateState" /\ op.twice /\ ~op.threw )
    => Count(state.quests.completed, op.arg.quests.completeQuest) = 1

\* C16: in every reachable state quests.completed does not hold the name of
\* the current quest.
C16_CurrentNotCompleted ==
    Count(state.quests.completed, state.quests.current) = 0

\* C17: updateState on an initialized store does not throw, whatever the
\* patch names or omits.
C17_UpdateStateNeverThrows ==
    op.name = "updateState" => ~op.threw

\* C18: a patch whose history key is an array has its strings appended, in
\* order, to the end of the existing history log of any initialized store,
\* a freshly created one included; the earlier entries stay as they were.
C18_HistoryAppended ==
    ( op.name = "updateState" /\ Has(op.arg, "history") )
    => ( /\ ~op.threw
         /\ Has(state, "history")
         /\ state.history =
                (IF Has(op.before, "history") THEN op.before.history ELSE <<>>)
                    \o op.arg.history )


\* The operations that load a payload
Loads == op.name \in {"loadSaveData", "loadGame"}

\* The keys of the persisted snapshot
SnapshotKeys == {"state", "initialContext", "timestamp", "version"}

\* C19: a load of a payload that has no state key, the empty payload
\* included, is rejected with an error and leaves the state document and the
\* initial context as they were.
C19_LoadRejectsMissingState ==
    ( Loads /\ ~Has(op.arg, "state") )
    => ( op.threw /\ state = op.before /\ initialContext = op.beforeContext )

C19_Witness ==
    /\ op.name = "loadSaveData"
    /\ op.arg = [initialContext |-> "a context"]
    /\ op.threw
    /\ op.before # initializeState
    /\ state = op.before
    /\ initialContext = op.beforeContext

\* C20: what the save operation produces is a snapshot {state,
\* initialContext, timestamp, version} of the document and the context, and
\* the load operation given that data accepts it and restores a document and
\* a context equal to the saved ones.
C20_SaveLoadRoundTrip ==
    /\ ( op.name = "saveGame" /\ ~op.threw )
          => ( /\ DOMAIN saved = SnapshotKeys
               /\ saved.state = state
               /\ saved.initialContext = initialContext )
    /\ ( Loads /\ op.arg = saved /\ saved # NoSave )
          => ( /\ ~op.threw
               /\ Has(saved, "state") /\ state = saved.state
               /\ Has(saved, "initialContext") /\ initialContext = saved.initialContext )


InventoryPatch ==
    [player |-> [inventory |-> << [name |-> "Potion", quantity |-> 1],
                                  [name |-> "potion", quantity |-> 1] >>]]

\* C30: a patch that names a key whose value is an array (player.inventory)
\* makes the document's value at that key the patch's array in full,
\* whatever array was there, and changes nothing else: arrays are neither
\* concatenated nor merged element by element.
C30_ArraysReplacedWhole ==
    ( op.name = "updateState" /\ op.arg = InventoryPatch )
    => ( /\ ~op.threw
         /\ state = [op.before EXCEPT
                        !.player.inventory = InventoryPatch.player.inventory] )

\* The patch met an inventory that held other stacks than the default one
C30_Witness ==
    /\ op.name = "updateState"
    /\ op.arg = InventoryPatch
    /\ op.before.player.inventory # initializeState.player.inventory
    /\ Len(op.before.player.inventory) >= 2
    /\ op.before.player.inventory # InventoryPatch.player.inventory
    /\ state.player.inventory = InventoryPatch.player.inventory


IsPrefix(a, b) == Len(a) <= Len(b) /\ SubSeq(b, 1, Len(a)) = a

\* C26: applying the state changes of a turn removes, reorders or rewrites
\* no summary entry: the summaries list before an updateState call is a
\* prefix of the list after it.
C26_SummariesOnlyGrow ==
    [][ ( op'.n = op.n + 1 /\ op'.name = "updateState" )
        => IsPrefix(state.summaries, state'.summaries) ]_vars


\* The amount a removal asks for: the item's quantity, 1 when it gives none
Requested(item) == IF Has(item, "quantity") THEN item.quantity ELSE 1

\* A list without its i-th element
DropAt(list, i) == SubSeq(list, 1, i - 1) \o SubSeq(list, i + 1, Len(list))

\* C31: inventoryRemove of an amount of at least 1 (1 when unspecified) on
\* an inventory with a matching stack lowers that stack's quantity by the
\* amount when the quantity is strictly greater than it, and otherwise
\* removes the stack; the other stacks keep their quantities and order and
\* the rest of the document is unchanged.
C31_RemoveDecrementsOrDrops ==
    ( /\ RemovesItem
      /\ Requested(op.arg.player.inventoryRemove[1]) >= 1
      /\ Matches(op.before.player.inventory, op.arg.player.inventoryRemove[1].name) # {} )
    => LET item == op.arg.player.inventoryRemove[1]
           old == op.before.player.inventory
           new == state.player.inventory
       IN  /\ ~op.threw
           /\ state = [op.before EXCEPT !.player.inventory = new]
           /\ \E i \in Matches(old, item.name) :
                  IF old[i].quantity > Requested(item)
                    THEN new = [old EXCEPT ![i].quantity = @ - Requested(item)]
                    ELSE new = DropAt(old, i)

\* A stack of 4 was lowered to 2 by a removal of 2
C31_Witness ==
    /\ RemovesItem
    /\ op.arg.player.inventoryRemove[1] = [name |-> "potion", quantity |-> 2]
    /\ Len(state.player.inventory) = Len(op.before.player.inventory)
    /\ \E i \in 1..Len(state.player.inventory) :
           /\ op.before.player.inventory[i] = [name |-> "Potion", quantity |-> 4]
           /\ state.player.inventory[i] = [name |-> "Potion", quantity |-> 2]


\* C32: every stack of the inventory has a quantity of at least 1.
C32_QuantitiesAtLeastOne ==
    \A i \in 1..Len(state.player.inventory) :
        state.player.inventory[i].quantity >= 1

\* C38: inventoryRemove on a matching stack takes 1 unit when the item gives
\* no quantity, and changes nothing when the item gives the quantity 0.
C38_RemoveDefaultsAndZero ==
    ( RemovesItem
      /\ Matches(op.before.player.inventory, op.arg.player.inventoryRemove[1].name) # {} )
    => LET item == op.arg.player.inventoryRemove[1]
           old == op.before.player.inventory
           new == state.player.inventory
       IN  /\ ~Has(item, "quantity")
                => \E i \in Matches(old, item.name) :
                       IF old[i].quantity > 1
                         THEN new = [old EXCEPT ![i].quantity = @ - 1]
                         ELSE new = DropAt(old, i)
           /\ ( Has(item, "quantity") /\ item.quantity = 0 )
                => state = op.before


\* C33: quests.completed never holds a name at two positions, whatever
\* completeQuest applications and quest changes came before.
C33_CompletedHasNoRepeats ==
    \A i, j \in 1..Len(state.quests.completed) :
        i # j => state.quests.completed[i] # state.quests.completed[j]


\* The completeQuest patches whose quest name is not empty
CompletesNamedQuest ==
    /\ op.name = "updateState"
    /\ CompletesQuest(op.arg)
    /\ IsTruthy(op.arg.quests.completeQuest)

\* quests.current after a patch that may name it
CurrentAfter(patch, otherwise) ==
    IF Has(patch.quests, "current") THEN patch.quests.current ELSE otherwise

\* C34: completeQuest with the name of the current quest appends the name to
\* completed and leaves current at the patch's quests.current, else null;
\* with any other name it appends the name only when completed lacks it and
\* leaves current alone unless the patch names quests.current.
C34_CompleteQuestBranches ==
    CompletesNamedQuest
    => LET quest == op.arg.quests.completeQuest
           old == op.before.quests
           new == state.quests
       IN  /\ ~op.threw
           /\ IF old.current = quest
                 THEN /\ new.completed = Append(old.completed, quest)
                      /\ new.current = CurrentAfter(op.arg, "null")
                 ELSE /\ new.completed =
                             IF Count(old.completed, quest) = 0
                               THEN Append(old.completed, quest)
                               ELSE old.completed
                      /\ new.current = CurrentAfter(op.arg, old.current)

\* A quest that is not the current one and not yet completed is completed
\* after the current one was
C34_Witness ==
    /\ CompletesNamedQuest
    /\ op.arg.quests.completeQuest = "Side Quest"
    /\ op.before.quests = [current |-> "Reawakening", completed |-> << WelcomeQuest >>]
    /\ state.quests = [current |-> "Reawakening",
                       completed |-> << WelcomeQuest, "Side Quest" >>]

\* C35: the document never holds a player.inventoryAdd, player.inventoryRemove
\* or quests.completeQuest key.
C35_SpecialKeysNeverStored ==
    /\ ~Has(state.player, "inventoryAdd")
    /\ ~Has(state.player, "inventoryRemove")
    /\ ~Has(state.quests, "completeQuest")


\* C36: getNpcState changes nothing, and for a name the NPC map lacks it
\* returns an empty record and leaves the map without that name.
C36_GetNpcStateCreatesNothing ==
    op.name = "getNpcState"
    => /\ state = op.before
       /\ ~Has(op.before.NPCs, op.arg)
            => ( op.result = << >> /\ ~Has(state.NPCs, op.arg) )

\* getNpcState was called with the name of an NPC the document lacks
C36_Witness ==
    /\ op.name = "getNpcState"
    /\ op.arg = "HunterKim"
    /\ ~Has(op.before.NPCs, "HunterKim")
    /\ op.result = << >>

\* The record of an NPC before updateNpcState, none being the empty one
NpcBefore == getNpcState(op.before, op.arg.npcName)

\* C37: updateNpcState leaves a record for the name whose fields are those
\* it had and those of changes, each field of changes holding the whole
\* value given and every other field its old value; the other NPCs and the
\* rest of the document are as they were.
C37_UpdateNpcStateSetsNamedFields ==
    op.name = "updateNpcState"
    => LET npcName == op.arg.npcName
           changes == op.arg.changes
       IN  /\ state = [op.before EXCEPT !.NPCs = state.NPCs]
           /\ DOMAIN state.NPCs = DOMAIN op.before.NPCs \cup {npcName}
           /\ \A n \in DOMAIN op.before.NPCs \ {npcName} :
                  state.NPCs[n] = op.before.NPCs[n]
           /\ DOMAIN state.NPCs[npcName] = DOMAIN NpcBefore \cup DOMAIN changes
           /\ \A key \in DOMAIN changes : state.NPCs[npcName][key] = changes[key]
           /\ \A key \in DOMAIN NpcBefore \ DOMAIN changes :
                  state.NPCs[npcName][key] = NpcBefore[key]

\* An NPC the document lacked has a field overwritten by a whole object,
\* its other field kept
C37_Witness ==
    /\ op.name = "updateNpcState"
    /\ op.arg = [npcName |-> "HunterKim", changes |-> [notes |-> [fear |-> 2]]]
    /\ NpcBefore = [lastSeen |-> "gate", notes |-> [trust |-> 1]]
    /\ state.NPCs["HunterKim"] = [lastSeen |-> "gate", notes |-> [fear |-> 2]]
    /\ Has(state.NPCs, "NurseJoohee")

\* C39: after resetState the document is the default one: conversationHistory,
\* summaries and quests.completed are empty and the inventory holds only the
\* default item.
C39_ResetRestoresDefaults ==
    op.name = "resetState"
    => /\ state.conversationHistory = << >>
       /\ state.summaries = << >>
       /\ state.quests.completed = << >>
       /\ state.player.inventory =
              << [name |-> "Hospital Gown", type |-> "clothing",
                  description |-> "A plain patient gown", quantity |-> 1] >>
       /\ state = initializeState
       /\ initialContext = DefaultInitialContext

\* A document with summaries, a history log and another context was reset
C39_Witness ==
    /\ op.name = "resetState"
    /\ op.before.summaries # << >>
    /\ Has(op.before, "history")
    /\ op.beforeContext # DefaultInitialContext
    /\ state = initializeState

-----------------------------------------------------------------------------
(* Properties of the history window *)

RECURSIVE Flatten(_)
Flatten(chunks) == IF chunks = <<>> THEN <<>> ELSE Head(chunks) \o Flatten(Tail(chunks))

Range(s) == {s[i] : i \in 1..Len(s)}

TextsOf(h) == [i \in 1..Len(h) |-> h[i].text]

LiveTexts == TextsOf(state.conversationHistory)

NoDuplicates(s) == \A i, j \in 1..Len(s) : i # j => s[i] # s[j]

\* C1: after manageConversationHistory has completed on a history that
\* totalled more than 20,000 tokens with no single entry above 20,000, the
\* live entries total at most 20,000 and at least one summary was added.
C1_BudgetAfterCompaction ==
    ( /\ mch.pc = "idle"
      /\ mch.result = "returned"
      /\ SumTokens(mch.before) > Budget
      /\ \A i \in 1..Len(mch.before) : mch.before[i].tokens <= Budget )
    => ( /\ SumTokens(state.conversationHistory) <= Budget
         /\ Len(state.summaries) > mch.sumBefore )

C9_CompactionPartitions ==
    ( /\ mch.pc = "idle"
      /\ mch.result = "returned"
      /\ \A i \in 1..Len(mch.before) : mch.before[i].tokens <= Budget )
    => LET before == Range(TextsOf(mch.before))
           given == Flatten(mch.handedNow)
       IN  /\ NoDuplicates(given)
           /\ \A t \in before : (t \in Range(LiveTexts)) # (t \in Range(given))
           /\ before \ Range(LiveTexts) = Range(given)

\* C10: the source entries of the summaries, in summaries order, followed by
\* the live entries are in the order in which the entries were appended (as
\* long as no entry alone costs more than 20,000).
C10_ChronologicalOrder ==
    LET line == Flatten(sources) \o LiveTexts
    IN  ( \A i \in 1..Len(line) : estimateTokens(line[i]) <= Budget )
        => \A i, j \in 1..Len(line) : i < j => line[i].id < line[j].id

\* manageConversationHistory went past its trim (line 232) in its latest call
Trimmed ==
    /\ SumTokens(mch.before) > Budget
    /\ \/ mch.pc = "summarizing"
       \/ mch.result \in {"returned", "summarizerFailed"}

\* The longest suffix of a log whose entries total at most the budget
LongestSuffixWithinBudget(h) ==
    LET fits == {k \in 0..Len(h) : SumTokens(SubSeq(h, Len(h) - k + 1, Len(h))) <= Budget}
        most == CHOOSE k \in fits : \A j \in fits : j <= k
    IN  SubSeq(h, Len(h) - most + 1, Len(h))

\* C21: after a compaction that evicted something (of a history none of
\* whose entries alone costs more than 20,000), the live entries are the
\* longest suffix of the log as it was whose total is at most 20,000.
C21_KeepsLongestSuffix ==
    ( /\ Trimmed
      /\ \A i \in 1..Len(mch.before) : mch.before[i].tokens <= Budget )
    => state.conversationHistory = LongestSuffixWithinBudget(mch.before)

\* C22: an entry that alone costs more than 20,000 tokens is still in the
\* live log after a compaction.
C22_OversizedEntryRetained ==
    Trimmed
    => \A i \in 1..Len(mch.before) :
           mch.before[i].tokens > Budget
           => mch.before[i] \in Range(state.conversationHistory)

\* The token cost of the texts of a chunk
RECURSIVE TextTokens(_)
TextTokens(chunk) ==
    IF chunk = <<>> THEN 0 ELSE estimateTokens(Head(chunk)) + TextTokens(Tail(chunk))

\* C23: the chunks handed to the summarizer in a compaction are, put end to
\* end, the excess entries from the oldest on; every chunk is non-empty and
\* totals less than 2,500 tokens without its last entry; every chunk but the
\* last, and the last one too while excess entries remain, totals at least
\* 2,500; when the compaction has returned all the excess entries were
\* handed over; and each chunk the summarizer returned for added exactly one
\* summary entry, of role "Summary".
C23_GreedyChunks ==
    Trimmed =>
        LET chunks == mch.handedNow
            given == Flatten(chunks)
            excess == TextsOf(ExcessHistory(mch.before))
            added == Len(state.summaries) - mch.sumBefore
        IN  /\ Len(given) <= Len(excess)
            /\ given = SubSeq(excess, 1, Len(given))
            /\ mch.result = "returned" => given = excess
            /\ \A c \in 1..Len(chunks) :
                   /\ chunks[c] # <<>>
                   /\ TextTokens(SubSeq(chunks[c], 1, Len(chunks[c]) - 1)) < ChunkTokens
                   /\ ( c < Len(chunks) \/ mch.rest # <<>> )
                        => TextTokens(chunks[c]) >= ChunkTokens
            /\ added = IF mch.result = "returned" THEN Len(chunks) ELSE Len(chunks) - 1
            /\ \A i \in (mch.sumBefore + 1)..Len(state.summaries) :
                   state.summaries[i].role = "Summary"

\* A compaction has returned after a full chunk and a trailing chunk below
\* 2,500 tokens
C23_Witness ==
    /\ Trimmed
    /\ mch.result = "returned"
    /\ Len(mch.handedNow) = 2
    /\ TextTokens(mch.handedNow[1]) >= ChunkTokens
    /\ TextTokens(mch.handedNow[2]) < ChunkTokens
    /\ Len(state.summaries) = mch.sumBefore + 2

\* A step that is a call of manageConversationHistory on the log as it stands
CompactStep == mch.pc = "idle" /\ compacts' = compacts + 1

\* C25: manageConversationHistory called on live entries that total at most
\* 20,000 tokens changes neither the live entries nor the summaries and calls
\* no summarizer; and so does a call that follows a successful compaction (of
\* a history none of whose entries alone costs more than 20,000).
C25_NoOpWithinBudget ==
    [][ /\ ( CompactStep /\ SumTokens(state.conversationHistory) <= Budget )
           => ( state' = state /\ handed' = handed /\ mch'.pc = "idle" )
        /\ ( /\ CompactStep
             /\ mch.result = "returned"
             /\ SumTokens(mch.before) > Budget
             /\ \A i \in 1..Len(mch.before) : mch.before[i].tokens <= Budget )
           => ( state' = state /\ handed' = handed /\ mch'.pc = "idle" ) ]_vars

\* C29: the recent entries generateNarration selects from a conversation
\* history (none of whose entries alone costs more than 20,000) are the
\* entries manageConversationHistory keeps live of it, in the same order: the
\* whole history when it totals at most 20,000, else what the compaction
\* left.
C29_RecentHistoryIsKeptSide ==
    /\ SumTokens(state.conversationHistory) <= Budget
          => RecentEntries(state.conversationHistory) = state.conversationHistory
    /\ ( /\ Trimmed
         /\ \A i \in 1..Len(mch.before) : mch.before[i].tokens <= Budget )
          => RecentEntries(mch.before) = state.conversationHistory

====
